---- MODULE Spec2Model ----
(***************************************************************************)
(* Model of the movie-pitch workflow of                                    *)
(* adk_multiagent_systems/workflow_agents/agent.py: the tool               *)
(* append_to_state, the custom ConditionalAgent, the writers_room loop,    *)
(* the parallel preproduction_team and the film_concept_team pipeline.     *)
(*                                                                         *)
(* The composites SequentialAgent, LoopAgent and ParallelAgent are         *)
(* imported from the agent framework; their control policy is modelled     *)
(* from the design document (sections 4.1 - 4.3), the configuration        *)
(* (children, max_iterations, output keys, tools, the condition and the    *)
(* two branch lists) from agent.py.                                        *)
(*                                                                         *)
(* The text an LLM agent produces is never inspected by the control flow;  *)
(* in the pipeline each agent's text is the symbolic value that names the  *)
(* agent.  AppendSpec exercises append_to_state with arbitrary responses.  *)
(***************************************************************************)
EXTENDS Integers, Sequences, FiniteSets, TLC

\* ------------------------------------------------------------------ bounds

\* Number of times the greeter hands over to film_concept_team.
MaxRuns == 2

\* The agents stop calling append_to_state on a list of this length.
MaxLen == 20

\* The loop's iteration counter saturates here (never reached with the cap 5).
IterCap == 7

\* Number of distinct response texts a tool call may carry in AppendSpec.
NumResponses == 2

\* Longest list AppendSpec builds under one key.
MaxAppends == 3

\* Number of activations of the conditional that GenericSpec starts.
MaxActivations == 3

\* Number of append_to_state calls each concurrent step of CallSpec makes.
MaxCalls == 2

\* Largest limit a search is called with, and most products one merchant returns.
MaxLimit == 3

MaxProducts == 2

\* ------------------------------------------------------- the state store

Keys ==
    {"PROMPT", "research", "PLOT_OUTLINE", "CRITICAL_FEEDBACK",
     "box_office_report", "casting_report", "indian_budget_estimate"}

\* A key that is not in the state dictionary.
Absent == [kind |-> "absent"]

\* A Python list value.
List(items) == [kind |-> "list", items |-> items]

\* A Python str value (an agent's output saved under its output_key).
Text(t) == [kind |-> "str", text |-> t]

EmptyState == [k \in Keys |-> Absent]

\* tool_context.state.get(field, [])
StateGet(st, field) == IF st[field] = Absent THEN List(<<>>) ELSE st[field]

\* Python truthiness of state.get(key): None, [] and "" are falsy.
Truthy(st, key) ==
    CASE st[key].kind = "absent" -> FALSE
      [] st[key].kind = "list" -> st[key].items # <<>>
      [] st[key].kind = "str" -> st[key].text # ""

\* ------------------------------------------------------------------ tools

append_to_state_overwrite(st, field, response) ==
    [st EXCEPT ![field] = List(<<response>>)]

append_to_state_prepend(st, field, response) ==
    LET existing_state == StateGet(st, field)
    IN  IF existing_state.kind = "list"
        THEN [st EXCEPT ![field] = List(<<response>> \o existing_state.items)]
        ELSE st

\* existing_state = tool_context.state.get(field, [])
\* tool_context.state[field] = existing_state + [response]
\* (list + list; with a str under the key the + raises and nothing is stored)
append_to_state(st, field, response) ==
    LET existing_state == StateGet(st, field)
    IN  IF existing_state.kind = "list"
        THEN [st EXCEPT ![field] = List(existing_state.items \o <<response>>)]
        ELSE st

\* existing_state = tool_context.state.get(field, [])
append_to_state_read(st, field) == StateGet(st, field)

\* existing_state + [response] raises TypeError unless existing_state is a list
append_to_state_raises(existing_state) == existing_state.kind # "list"

\* tool_context.state[field] = existing_state + [response]
append_to_state_write(st, field, existing_state, response) ==
    [st EXCEPT ![field] = List(existing_state.items \o <<response>>)]

\* --------------------------------------------------- the merchant registry

\* UCPMerchantRegistry._load_merchants: the keys of self.merchants in the
\* order they are registered; ramdev only when both environment values are set
load_merchants(env_set) ==
    IF env_set THEN <<"shopify", "custom", "ramdev">> ELSE <<"shopify", "custom">>

\* the merchant_id of the UCPMerchant registered under each key
merchant_id_of(key) ==
    CASE key = "shopify" -> "shopify_store_123"
      [] key = "custom" -> "custom_store_456"
      [] key = "ramdev" -> "ramdev_clothing"

get_client_default(merchants, merchant_id) ==
    IF merchant_id = "ramdevitworld"
    THEN IF \E i \in 1 .. Len(merchants) : merchants[i] = "ramdev"
         THEN "ramdev" ELSE "shopify"
    ELSE IF \E i \in 1 .. Len(merchants) : merchants[i] = merchant_id
         THEN merchant_id ELSE "shopify"

\* UCPMerchantRegistry.get_client: the key of the client returned, or None
get_client(merchants, merchant_id) ==
    IF merchant_id = "ramdevitworld"
    THEN IF \E i \in 1 .. Len(merchants) : merchants[i] = "ramdev"
         THEN "ramdev" ELSE "None"
    ELSE IF \E i \in 1 .. Len(merchants) : merchants[i] = merchant_id
         THEN merchant_id ELSE "None"

\* UCPClient.search_products: the request it sends
search_products_path(merchant_id) ==
    IF merchant_id = "ramdev_clothing"
    THEN "GET /product/search"
    ELSE "POST /catalog/search"

\* UCPClient.get_product_details: the request it sends
get_product_details_path(merchant_id) ==
    IF merchant_id = "ramdev"
    THEN "GET /wc/store/products/{product_id}"
    ELSE "GET /catalog/products/{product_id}"

\* UCPClient.search_products: the products of the response, [] when the
\* request or the parsing raised
search_products(response) == IF response.ok THEN response.products ELSE <<>>

\* Python's all_products[:limit]
SlicePrefix(all_products, limit) ==
    IF limit >= 0
    THEN SubSeq(all_products, 1, IF limit < Len(all_products) THEN limit ELSE Len(all_products))
    ELSE SubSeq(all_products, 1,
                IF Len(all_products) + limit > 0 THEN Len(all_products) + limit ELSE 0)

RECURSIVE search_all_merchants_stops(_, _, _)
search_all_merchants_stops(merchants, responses, limit) ==
    IF merchants = <<>> \/ ~responses[merchants[1]].ok THEN <<>>
    ELSE SlicePrefix(search_products(responses[merchants[1]])
                     \o search_all_merchants_stops(Tail(merchants), responses, limit),
                     limit)

\* UCPMerchantRegistry.search_all_merchants: every client is searched, the
\* results are concatenated and cut to limit (cutting after each merchant or
\* once at the end gives the same list for limit >= 0; the code cuts once)
RECURSIVE AllProducts(_, _)
AllProducts(merchants, responses) ==
    IF merchants = <<>> THEN <<>>
    ELSE search_products(responses[merchants[1]])
         \o AllProducts(Tail(merchants), responses)

search_all_merchants(merchants, responses, limit) ==
    SlicePrefix(AllProducts(merchants, responses), limit)

\* The UCP tool functions that take a merchant_id.
UcpTools ==
    {"search_ucp_products", "get_ucp_recommendations", "create_ucp_checkout",
     "track_ucp_interaction", "discover_merchant_capabilities"}

\* the client method each tool calls
client_method(tool) ==
    CASE tool = "search_ucp_products" -> "search_products"
      [] tool = "get_ucp_recommendations" -> "get_recommendations"
      [] tool = "create_ucp_checkout" -> "create_checkout_session"
      [] tool = "track_ucp_interaction" -> "track_event"
      [] tool = "discover_merchant_capabilities" -> "discover_capabilities"

\* What the client method did: "ok", "fail" (the request raised inside the
\* client, which returns [], False, {"error": ...} or the fallback), or
\* "malformed" (it returned a value the tool's own code raises on).
ClientOutcomes == {"ok", "fail", "malformed"}

\* The status of the dict a tool returns once it has a client: the whole
\* body is inside try/except Exception, which returns status error.
tool_status(tool, outcome) ==
    CASE outcome = "malformed" -> "error"
      [] outcome = "ok" -> "success"
      [] tool \in {"create_ucp_checkout", "track_ucp_interaction"} -> "error"
      [] OTHER -> "success"

\* A UCP tool function called with merchant_id: its status and the calls it
\* made on merchant clients.
ucp_tool(tool, merchants, merchant_id, outcome) ==
    LET client == get_client(merchants, merchant_id)
    IN  IF client = "None"
        THEN [status |-> "error", client_calls |-> <<>>]
        ELSE [status |-> tool_status(tool, outcome),
              client_calls |-> <<<<client, client_method(tool)>>>>]

\* ------------------------------------------------------- the configuration

writers_room_sub_agents_swapped == <<"screenwriter", "researcher", "critic">>

writers_room_sub_agents == <<"researcher", "screenwriter", "critic">>

max_iterations_six == 5 + 1

max_iterations_four == 5 - 1

max_iterations_none == 5 - 5

\* writers_room: max_iterations=5; 0 stands for no cap
max_iterations == 5

critic_tools_no_exit == {"append_to_state"}

\* critic: tools=[append_to_state, exit_loop]
critic_tools == {"append_to_state", "exit_loop"}

preproduction_team_sub_agents ==
    {"box_office_researcher", "casting_agent", "indian_line_producer"}

output_key_clash(agent) ==
    CASE agent = "box_office_researcher" -> "box_office_report"
      [] agent = "casting_agent" -> "box_office_report"
      [] agent = "indian_line_producer" -> "indian_budget_estimate"

\* the output_key of each child of preproduction_team
output_key(agent) ==
    CASE agent = "box_office_researcher" -> "box_office_report"
      [] agent = "casting_agent" -> "casting_report"
      [] agent = "indian_line_producer" -> "indian_budget_estimate"

pitch_is_good_key_absent(st) == st["CRITICAL_FEEDBACK"] = Absent

\* return not tool_context.state.get("CRITICAL_FEEDBACK")
pitch_is_good(st) == ~Truthy(st, "CRITICAL_FEEDBACK")

pitch_is_good_setdefault(st) ==
    [st EXCEPT !["CRITICAL_FEEDBACK"] = StateGet(st, "CRITICAL_FEEDBACK")]

\* the state store after pitch_is_good has run: state.get(...) reads the key
\* and stores nothing
pitch_is_good_state(st) == st

if_true_agents_swapped == <<"file_writer", "preproduction_team">>

\* pitch_approval_workflow: if_true_agents=[preproduction_team, file_writer]
if_true_agents == <<"preproduction_team", "file_writer">>

\* pitch_approval_workflow: if_false_agents=[producer]
if_false_agents == <<"producer">>

ConditionalAgent_plan_memo(condition, self_sub_agents) ==
    IF self_sub_agents # <<>> THEN self_sub_agents
    ELSE IF condition THEN if_true_agents ELSE if_false_agents

ConditionalAgent_plan_both(condition, self_sub_agents) ==
    IF condition THEN if_true_agents \o if_false_agents ELSE if_false_agents

\* ConditionalAgent.plan: the value assigned to self.sub_agents, given the
\* result of self._condition(tool_context) and the previous self.sub_agents
ConditionalAgent_plan(condition, self_sub_agents) ==
    IF condition THEN if_true_agents ELSE if_false_agents

\* The result of calling self._condition(tool_context) for a condition that
\* need not be total: it returns True or False, or raises.
ConditionResults == {"true", "false", "raise"}

ConditionalAgent_plan_raises_caught(result) == FALSE

\* ConditionalAgent.plan: the call of the condition is not guarded, so plan
\* raises exactly when the condition does
ConditionalAgent_plan_raises(result) == result = "raise"

ConditionalAgent_plan_object_inplace(result, self) ==
    CASE result = "true" ->
           [self EXCEPT !.sub_agents = self.if_true_agents]
      [] result = "false" ->
           [self EXCEPT !.sub_agents = self.if_false_agents,
                        !.if_true_agents =
                            IF self.sub_agents = self.if_true_agents
                            THEN self.if_false_agents ELSE @]
      [] OTHER -> self

\* ConditionalAgent.plan on the object's fields sub_agents, _if_true_agents
\* and _if_false_agents: self.sub_agents is rebound to one of the two lists;
\* when the condition raises nothing has been assigned yet
ConditionalAgent_plan_object(result, self) ==
    CASE result = "true" -> [self EXCEPT !.sub_agents = self.if_true_agents]
      [] result = "false" -> [self EXCEPT !.sub_agents = self.if_false_agents]
      [] OTHER -> self

\* ------------------------------------------------------------- variables

VARIABLES
    state,          \* the session's state store (tool_context.state)
    pc,             \* where the run is: root, loop, cond, branch, end, tool
    runs,           \* hand-overs to film_concept_team so far
    loopState,      \* writers_room: ITERATING, EXITED, EXHAUSTED
    times_looped,   \* writers_room: iterations completed in this run
    cur,            \* writers_room: index of the child to run next
    escalate,       \* the termination signal raised by exit_loop
    sub_agents,     \* pitch_approval_workflow.sub_agents (kept on the object)
    plan,           \* the child list the current activation runs
    idx,            \* index of the child of plan to run next
    par,            \* preproduction_team: each child idle, running or done
    pitch_file,     \* whether write_file has written a pitch document
    ran,            \* history: children the current activation has started
    selections,     \* history: one record per activation of the conditional
    evals,          \* history: calls of the condition
    approvedAt,     \* history: iteration of the critic's first exit_loop call
    criticIdle,     \* history: the critic once called neither tool
    log,            \* history: the responses appended under each key
    error,          \* the failure the run ended with (path, failed children)
    order,          \* history: loop children run in this run, with what each saw
    observed,       \* history: the reports file_writer read from the state
    wrote,          \* history: keys each child of preproduction_team wrote
    branches,       \* the conditional's _if_true_agents and _if_false_agents
    binding,        \* how a returned plan refers to its children
    act,            \* GenericSpec: the activations of the conditional
    started,        \* GenericSpec: activations started so far
    call,           \* CallSpec: the append_to_state call each step is in
    ucp             \* UcpSpec: the merchant registry and the last call made on it

vars ==
    <<state, pc, runs, loopState, times_looped, cur, escalate, sub_agents,
      plan, idx, par, pitch_file, ran, selections, evals, approvedAt,
      criticIdle, log, error, order, observed, wrote, branches, binding,
      act, started, call, ucp>>

loopVars == <<loopState, times_looped, cur, escalate>>

condVars == <<sub_agents, plan, idx, par, pitch_file>>

historyVars == <<ran, selections, evals, approvedAt, criticIdle>>

genericVars == <<branches, binding, act, started, call, ucp>>

Range(s) == {s[i] : i \in 1 .. Len(s)}

NoError == [path |-> <<>>, children |-> {}]

Activations == {1, 2}

Tasks == {1, 2}

NoCall ==
    [status |-> "idle", field |-> "none", response |-> 0,
     existing_state |-> Absent, calls |-> 0]

\* The last call made on the registry, before any call.
NoUcpCall ==
    [kind |-> "none", tool |-> "none", merchant_id |-> "none",
     status |-> "none", client_calls |-> <<>>, limit |-> 0,
     responses |-> [k \in {"shopify", "custom", "ramdev"} |->
                      [ok |-> TRUE, products |-> <<>>]],
     queried |-> <<>>, products |-> <<>>,
     path |-> "none"]

NoUcp == [merchants |-> <<"shopify", "custom">>, last |-> NoUcpCall]

IdleActivation ==
    [status |-> "idle", result |-> "none", plan |-> <<>>, idx |-> 1, ran |-> <<>>]

\* A session starts with CRITICAL_FEEDBACK absent or, given as initial
\* session state, an empty list.
InitialStates ==
    {EmptyState, [EmptyState EXCEPT !["CRITICAL_FEEDBACK"] = List(<<>>)]}

Init ==
    /\ state \in InitialStates
    /\ pc = "root"
    /\ runs = 0
    /\ loopState = "ITERATING"
    /\ times_looped = 0
    /\ cur = 1
    /\ escalate = FALSE
    /\ sub_agents = <<>>
    /\ plan = <<>>
    /\ idx = 1
    /\ par = [c \in preproduction_team_sub_agents |-> "idle"]
    /\ pitch_file = FALSE
    /\ ran = <<>>
    /\ selections = <<>>
    /\ evals = 0
    /\ approvedAt = 0
    /\ criticIdle = FALSE
    /\ log = [k \in Keys |-> <<>>]
    /\ error = NoError
    /\ order = <<>>
    /\ observed = <<>>
    /\ wrote = [c \in preproduction_team_sub_agents |-> {}]
    /\ branches = [if_true_agents |-> if_true_agents,
                   if_false_agents |-> if_false_agents]
    /\ binding = "snapshot"
    /\ act = [a \in Activations |-> IdleActivation]
    /\ started = 0
    /\ call = [t \in Tasks |-> NoCall]
    /\ ucp = NoUcp

\* An LLM agent following its instruction calls append_to_state(field, text);
\* it stops doing so once the list holds MaxLen entries.
AgentAppend(st, field, text) ==
    IF Len(StateGet(st, field).items) < MaxLen
    THEN append_to_state(st, field, text)
    ELSE st

\* ------------------------------------------------- root_agent and sessions

\* greeter: stores the user's answer under PROMPT and transfers to
\* film_concept_team, whose first child is the writers_room loop.
RootTransfer ==
    /\ pc \in {"root", "end"}
    /\ runs < MaxRuns
    /\ state' = AgentAppend(state, "PROMPT", "user")
    /\ pc' = "loop"
    /\ runs' = runs + 1
    /\ loopState' = "ITERATING"
    /\ times_looped' = 0
    /\ cur' = 1
    /\ escalate' = FALSE
    /\ plan' = <<>>
    /\ idx' = 1
    /\ par' = [c \in preproduction_team_sub_agents |-> "idle"]
    /\ ran' = <<>>
    /\ approvedAt' = 0
    /\ criticIdle' = FALSE
    /\ error' = NoError
    /\ order' = <<>>
    /\ observed' = <<>>
    /\ wrote' = [c \in preproduction_team_sub_agents |-> {}]
    /\ UNCHANGED <<sub_agents, pitch_file, selections, evals, log, genericVars>>

\* A new session: a fresh state store; the agent objects are module globals
\* and are shared by all sessions.
NewSession ==
    /\ pc = "end"
    /\ runs < MaxRuns
    /\ state' \in InitialStates
    /\ pc' = "root"
    /\ UNCHANGED <<runs, loopVars, condVars, historyVars, log, error, order,
                   observed, wrote, genericVars>>

\* ------------------------------------------------- writers_room (the loop)

\* What a loop child finds in the state when it starts: the lengths of the
\* lists its instruction template reads.
Saw(st) ==
    <<Len(StateGet(st, "research").items),
      Len(StateGet(st, "PLOT_OUTLINE").items),
      Len(StateGet(st, "CRITICAL_FEEDBACK").items)>>

\* The history of child starts of one run of writers_room: at most
\* max_iterations passes over the list, one entry per child and pass.
Started(o, agent, st) ==
    IF Len(o) < max_iterations * Len(writers_room_sub_agents)
    THEN Append(o, <<agent, Saw(st)>>)
    ELSE o

InLoop(agent) ==
    /\ pc = "loop"
    /\ loopState = "ITERATING"
    /\ cur <= Len(writers_room_sub_agents)
    /\ writers_room_sub_agents[cur] = agent

\* researcher: appends its research to the field 'research'
Researcher ==
    /\ InLoop("researcher")
    /\ state' = AgentAppend(state, "research", "researcher")
    /\ cur' = cur + 1
    /\ order' = Started(order, writers_room_sub_agents[cur], state)
    /\ UNCHANGED <<pc, runs, loopState, times_looped, escalate, condVars,
                   historyVars, log, error, observed, wrote, genericVars>>

\* screenwriter: appends its outline to the field 'PLOT_OUTLINE'
Screenwriter ==
    /\ InLoop("screenwriter")
    /\ state' = AgentAppend(state, "PLOT_OUTLINE", "screenwriter")
    /\ cur' = cur + 1
    /\ order' = Started(order, writers_room_sub_agents[cur], state)
    /\ UNCHANGED <<pc, runs, loopState, times_looped, escalate, condVars,
                   historyVars, log, error, observed, wrote, genericVars>>

\* critic: exits the loop with exit_loop, or appends to CRITICAL_FEEDBACK,
\* or (the LLM not following its instruction) calls neither tool.
Critic ==
    /\ InLoop("critic")
    /\ cur' = cur + 1
    /\ \/ /\ escalate' = (escalate \/ "exit_loop" \in critic_tools)
          /\ approvedAt' = IF approvedAt = 0 THEN times_looped + 1 ELSE approvedAt
          /\ UNCHANGED <<state, criticIdle>>
       \/ /\ "append_to_state" \in critic_tools
          /\ state' = AgentAppend(state, "CRITICAL_FEEDBACK", "critic")
          /\ UNCHANGED <<escalate, approvedAt, criticIdle>>
       \/ /\ criticIdle' = TRUE
          /\ UNCHANGED <<state, escalate, approvedAt>>
    /\ order' = Started(order, writers_room_sub_agents[cur], state)
    /\ UNCHANGED <<pc, runs, loopState, times_looped, condVars, ran,
                   selections, evals, log, error, observed, wrote, genericVars>>

LoopAgent_iteration_end_keeps_signal ==
    /\ pc = "loop"
    /\ loopState = "ITERATING"
    /\ cur > Len(writers_room_sub_agents)
    /\ times_looped' = IF times_looped < IterCap THEN times_looped + 1 ELSE times_looped
    /\ IF escalate
       THEN loopState' = "EXITED" /\ UNCHANGED <<escalate, cur>>
       ELSE IF max_iterations # 0 /\ times_looped' >= max_iterations
       THEN loopState' = "EXHAUSTED" /\ UNCHANGED <<escalate, cur>>
       ELSE loopState' = "ITERATING" /\ cur' = 1 /\ UNCHANGED escalate
    /\ UNCHANGED <<state, pc, runs, condVars, historyVars, log, error, order, observed, wrote, genericVars>>

\* LoopAgent at the end of an iteration: EXITED when the termination signal
\* was raised during the iteration (the signal is consumed), EXHAUSTED when
\* the counter reaches max_iterations, otherwise the next iteration.
LoopAgent_iteration_end ==
    /\ pc = "loop"
    /\ loopState = "ITERATING"
    /\ cur > Len(writers_room_sub_agents)
    /\ times_looped' = IF times_looped < IterCap THEN times_looped + 1 ELSE times_looped
    /\ IF escalate
       THEN loopState' = "EXITED" /\ escalate' = FALSE /\ cur' = cur
       ELSE IF max_iterations # 0 /\ times_looped' >= max_iterations
       THEN loopState' = "EXHAUSTED" /\ UNCHANGED <<escalate, cur>>
       ELSE loopState' = "ITERATING" /\ cur' = 1 /\ UNCHANGED escalate
    /\ UNCHANGED <<state, pc, runs, condVars, historyVars, log, error, order, observed, wrote, genericVars>>

\* ------------------------------------------------------ film_concept_team

\* SequentialAgent: writers_room has returned (either terminal state is a
\* normal completion), the next child pitch_approval_workflow is activated.
SequentialAgent_next ==
    /\ pc = "loop"
    /\ loopState \in {"EXITED", "EXHAUSTED"}
    /\ pc' = "cond"
    /\ UNCHANGED <<state, runs, loopVars, condVars, historyVars, log, error, order, observed, wrote, genericVars>>

\* ------------------------------------------------ pitch_approval_workflow

\* ConditionalAgent.plan: evaluates the condition, assigns self.sub_agents
\* and returns super().plan(), the sequential plan over self.sub_agents.
pitch_approval_workflow_plan ==
    /\ pc = "cond"
    /\ LET condition == pitch_is_good(state)
           chosen == ConditionalAgent_plan(condition, sub_agents)
       IN  /\ sub_agents' = chosen
           /\ plan' = chosen
           /\ selections' = Append(selections,
                  [feedback |-> state["CRITICAL_FEEDBACK"],
                   good |-> condition,
                   approved |-> (loopState = "EXITED"),
                   idle |-> criticIdle,
                   chosen |-> chosen])
    /\ evals' = evals + 1
    /\ idx' = 1
    /\ pc' = "branch"
    /\ state' = pitch_is_good_state(state)
    /\ UNCHANGED <<runs, loopVars, par, pitch_file, ran, approvedAt,
                   criticIdle, log, error, order, observed, wrote, genericVars>>

InBranch(agent) ==
    /\ pc = "branch"
    /\ idx <= Len(plan)
    /\ plan[idx] = agent

\* preproduction_team (ParallelAgent): starts all its children
ParallelAgent_start ==
    /\ InBranch("preproduction_team")
    /\ \A c \in preproduction_team_sub_agents : par[c] = "idle"
    /\ par' = [c \in preproduction_team_sub_agents |-> "running"]
    /\ ran' = Append(ran, "preproduction_team")
    /\ UNCHANGED <<state, pc, runs, loopVars, sub_agents, plan, idx,
                   pitch_file, selections, evals, approvedAt, criticIdle, log,
                   error, order, observed, wrote, genericVars>>

\* a child of preproduction_team finishes: its text (named by the child and
\* the run) is saved under its output_key
ChildFinish(c) ==
    /\ pc = "branch"
    /\ par[c] = "running"
    /\ state' = [state EXCEPT ![output_key(c)] = Text(<<c, runs>>)]
    /\ par' = [par EXCEPT ![c] = "done"]
    /\ wrote' = [wrote EXCEPT ![c] = @ \cup {output_key(c)}]
    /\ UNCHANGED <<pc, runs, loopVars, sub_agents, plan, idx, pitch_file,
                   historyVars, log, error, order, observed, genericVars>>

ParallelChild == \E c \in preproduction_team_sub_agents : ChildFinish(c)

\* preproduction_team returns once every child has finished
ParallelAgent_join ==
    /\ InBranch("preproduction_team")
    /\ \A c \in preproduction_team_sub_agents : par[c] = "done"
    /\ idx' = idx + 1
    /\ UNCHANGED <<state, pc, runs, loopVars, sub_agents, plan, par,
                   pitch_file, historyVars, log, error, order, observed, wrote, genericVars>>

\* file_writer: reads the three reports from the state into its instruction
\* and saves the pitch document with write_file
FileWriter ==
    /\ InBranch("file_writer")
    /\ pitch_file' = TRUE
    /\ observed' = <<state["box_office_report"], state["casting_report"],
                     state["indian_budget_estimate"]>>
    /\ ran' = Append(ran, "file_writer")
    /\ idx' = idx + 1
    /\ UNCHANGED <<state, pc, runs, loopVars, sub_agents, plan, par,
                   selections, evals, approvedAt, criticIdle, log, error,
                   order, wrote, genericVars>>

\* producer: gives its verdict; it has no tool and no output_key
Producer ==
    /\ InBranch("producer")
    /\ ran' = Append(ran, "producer")
    /\ idx' = idx + 1
    /\ UNCHANGED <<state, pc, runs, loopVars, sub_agents, plan, par,
                   pitch_file, selections, evals, approvedAt, criticIdle, log,
                   error, order, observed, wrote, genericVars>>

\* the selected list has been run: the activation, and the run, are over
BranchDone ==
    /\ pc = "branch"
    /\ idx > Len(plan)
    /\ pc' = "end"
    /\ UNCHANGED <<state, runs, loopVars, condVars, historyVars, log, error, order, observed, wrote, genericVars>>

LoopStep == Researcher \/ Screenwriter \/ Critic \/ LoopAgent_iteration_end

Next ==
    \/ RootTransfer
    \/ NewSession
    \/ Researcher
    \/ Screenwriter
    \/ Critic
    \/ LoopAgent_iteration_end
    \/ SequentialAgent_next
    \/ pitch_approval_workflow_plan
    \/ ParallelAgent_start
    \/ ParallelChild
    \/ ParallelAgent_join
    \/ FileWriter
    \/ Producer
    \/ BranchDone

Spec == Init /\ [][Next]_vars

\* Every step execution terminates: a step that can run is eventually run.
FairSpec == Spec /\ WF_vars(Next)

\* ------------------------------------------------------- step failures

LoopChildFails_swallowed ==
    /\ \E agent \in Range(writers_room_sub_agents) :
          /\ InLoop(agent)
          /\ error' = [path |-> <<"film_concept_team", "writers_room", agent>>,
                       children |-> {}]
    /\ cur' = cur + 1
    /\ UNCHANGED <<state, pc, runs, loopState, times_looped, escalate,
                   condVars, historyVars, log, order, observed, wrote,
                   genericVars>>

\* A child of writers_room cannot complete (StepFailure): the loop and the
\* enclosing film_concept_team stop at once and propagate the failure.
\* A failed run is over: the failure is what the user is shown.
LoopChildFails ==
    /\ \E agent \in Range(writers_room_sub_agents) :
          /\ InLoop(agent)
          /\ error' = [path |-> <<"film_concept_team", "writers_room", agent>>,
                       children |-> {}]
    /\ pc' = "failed"
    /\ UNCHANGED <<state, runs, loopVars, condVars, historyVars, log, order,
                   observed, wrote, genericVars>>

\* A child of preproduction_team cannot complete: it writes nothing; the
\* other children go on.
ChildFails(c) ==
    /\ pc = "branch"
    /\ par[c] = "running"
    /\ par' = [par EXCEPT ![c] = "failed"]
    /\ UNCHANGED <<state, pc, runs, loopVars, sub_agents, plan, idx,
                   pitch_file, historyVars, log, error, order, observed,
                   wrote, genericVars>>

ParallelChildFails == \E c \in preproduction_team_sub_agents : ChildFails(c)

ParallelAgent_join_failed_first ==
    /\ InBranch("preproduction_team")
    /\ \E c \in preproduction_team_sub_agents :
          /\ par[c] = "failed"
          /\ error' = [path |-> <<"film_concept_team", "pitch_approval_workflow",
                                  "preproduction_team">>,
                       children |-> {c}]
    /\ pc' = "failed"
    /\ UNCHANGED <<state, runs, loopVars, condVars, historyVars, log, order,
                   observed, wrote, genericVars>>

\* preproduction_team returns once every child has finished, some of them
\* with a failure: one aggregate error names every failed child, and the
\* enclosing sequences stop.
ParallelAgent_join_failed ==
    /\ InBranch("preproduction_team")
    /\ \A c \in preproduction_team_sub_agents : par[c] \in {"done", "failed"}
    /\ \E c \in preproduction_team_sub_agents : par[c] = "failed"
    /\ error' = [path |-> <<"film_concept_team", "pitch_approval_workflow",
                            "preproduction_team">>,
                 children |-> {c \in preproduction_team_sub_agents :
                                  par[c] = "failed"}]
    /\ pc' = "failed"
    /\ UNCHANGED <<state, runs, loopVars, condVars, historyVars, log, order,
                   observed, wrote, genericVars>>

BranchChildFails_no_path ==
    /\ \E agent \in {"file_writer", "producer"} :
          /\ InBranch(agent)
          /\ ran' = Append(ran, agent)
          /\ observed' =
                IF agent = "file_writer"
                THEN <<state["box_office_report"], state["casting_report"],
                       state["indian_budget_estimate"]>>
                ELSE observed
          /\ error' = [path |-> <<agent>>, children |-> {}]
    /\ pc' = "failed"
    /\ UNCHANGED <<state, runs, loopVars, condVars, selections, evals,
                   approvedAt, criticIdle, log, order, wrote, genericVars>>

\* file_writer (which has read the reports into its instruction) or producer
\* cannot complete: the selected list is run like a sequence, which stops at
\* the failing child.
BranchChildFails ==
    /\ \E agent \in {"file_writer", "producer"} :
          /\ InBranch(agent)
          /\ ran' = Append(ran, agent)
          /\ observed' =
                IF agent = "file_writer"
                THEN <<state["box_office_report"], state["casting_report"],
                       state["indian_budget_estimate"]>>
                ELSE observed
          /\ error' = [path |-> <<"film_concept_team", "pitch_approval_workflow",
                                  agent>>,
                       children |-> {}]
    /\ pc' = "failed"
    /\ UNCHANGED <<state, runs, loopVars, condVars, selections, evals,
                   approvedAt, criticIdle, log, order, wrote, genericVars>>

NextFail ==
    \/ Next
    \/ LoopChildFails
    \/ ParallelChildFails
    \/ ParallelAgent_join_failed
    \/ BranchChildFails

\* The workflow with steps that may fail.
FailSpec == Init /\ [][NextFail]_vars

\* ------------------------------------- ConditionalAgent, any condition

\* One ConditionalAgent object (a module global, like pitch_approval_workflow)
\* activated by runs that may overlap, with a condition that may raise.  The
\* plan the base class returns either holds the selected list (snapshot) or
\* reads self.sub_agents when each child is due (live); the framework decides.
InitGeneric ==
    /\ state = EmptyState
    /\ pc = "generic"
    /\ runs = 0
    /\ loopState = "ITERATING"
    /\ times_looped = 0
    /\ cur = 1
    /\ escalate = FALSE
    /\ sub_agents = <<>>
    /\ plan = <<>>
    /\ idx = 1
    /\ par = [c \in preproduction_team_sub_agents |-> "idle"]
    /\ pitch_file = FALSE
    /\ ran = <<>>
    /\ selections = <<>>
    /\ evals = 0
    /\ approvedAt = 0
    /\ criticIdle = FALSE
    /\ log = [k \in Keys |-> <<>>]
    /\ error = NoError
    /\ order = <<>>
    /\ observed = <<>>
    /\ wrote = [c \in preproduction_team_sub_agents |-> {}]
    /\ branches = [if_true_agents |-> if_true_agents,
                   if_false_agents |-> if_false_agents]
    /\ binding \in {"snapshot", "live"}
    /\ act = [a \in Activations |-> IdleActivation]
    /\ started = 0
    /\ call = [t \in Tasks |-> NoCall]
    /\ ucp = NoUcp

mainVars ==
    <<state, pc, runs, loopVars, plan, idx, par, pitch_file, historyVars, log,
      error, order, observed, wrote>>

\* The list an activation takes its next child from.
PlannedList(a) == IF binding = "snapshot" THEN act[a].plan ELSE sub_agents

\* ConditionalAgent.plan, called for activation a.
Activate(a) ==
    /\ pc = "generic"
    /\ act[a].status = "idle"
    /\ started < MaxActivations
    /\ \E result \in ConditionResults :
          LET self == [sub_agents |-> sub_agents,
                       if_true_agents |-> branches.if_true_agents,
                       if_false_agents |-> branches.if_false_agents]
              after == ConditionalAgent_plan_object(result, self)
              raised == ConditionalAgent_plan_raises(result)
          IN  /\ sub_agents' = after.sub_agents
              /\ branches' = [if_true_agents |-> after.if_true_agents,
                              if_false_agents |-> after.if_false_agents]
              /\ act' = [act EXCEPT ![a] =
                            [status |-> IF raised THEN "failed" ELSE "running",
                             result |-> result,
                             plan |-> IF raised THEN <<>> ELSE after.sub_agents,
                             idx |-> 1,
                             ran |-> <<>>]]
    /\ started' = started + 1
    /\ UNCHANGED <<mainVars, binding, call, ucp>>

\* Activation a runs the next child of its plan.
RunChild(a) ==
    /\ pc = "generic"
    /\ act[a].status = "running"
    /\ act[a].idx <= Len(PlannedList(a))
    /\ act' = [act EXCEPT ![a].ran = Append(@, PlannedList(a)[act[a].idx]),
                          ![a].idx = @ + 1]
    /\ UNCHANGED <<mainVars, sub_agents, branches, binding, started, call, ucp>>

\* Activation a has run the last child of its plan.
FinishActivation(a) ==
    /\ pc = "generic"
    /\ act[a].status = "running"
    /\ act[a].idx > Len(PlannedList(a))
    /\ act' = [act EXCEPT ![a].status = "done"]
    /\ UNCHANGED <<mainVars, sub_agents, branches, binding, started, call, ucp>>

\* The run that made activation a is over; the object can be activated again.
ReleaseActivation(a) ==
    /\ pc = "generic"
    /\ act[a].status \in {"done", "failed"}
    /\ started < MaxActivations
    /\ act' = [act EXCEPT ![a] = IdleActivation]
    /\ UNCHANGED <<mainVars, sub_agents, branches, binding, started, call, ucp>>

NextGeneric ==
    \/ \E a \in Activations : Activate(a)
    \/ \E a \in Activations : RunChild(a)
    \/ \E a \in Activations : FinishActivation(a)
    \/ \E a \in Activations : ReleaseActivation(a)

GenericSpec == InitGeneric /\ [][NextGeneric]_vars

\* ------------------------------------------- append_to_state on its own

Responses == 1 .. NumResponses

\* The fields the tool calls of AppendSpec name.
AppendKeys == {"PROMPT", "CRITICAL_FEEDBACK"}

InitAppend ==
    /\ state = EmptyState
    /\ pc = "tool"
    /\ runs = 0
    /\ loopState = "ITERATING"
    /\ times_looped = 0
    /\ cur = 1
    /\ escalate = FALSE
    /\ sub_agents = <<>>
    /\ plan = <<>>
    /\ idx = 1
    /\ par = [c \in preproduction_team_sub_agents |-> "idle"]
    /\ pitch_file = FALSE
    /\ ran = <<>>
    /\ selections = <<>>
    /\ evals = 0
    /\ approvedAt = 0
    /\ criticIdle = FALSE
    /\ log = [k \in Keys |-> <<>>]
    /\ error = NoError
    /\ order = <<>>
    /\ observed = <<>>
    /\ wrote = [c \in preproduction_team_sub_agents |-> {}]
    /\ branches = [if_true_agents |-> if_true_agents,
                   if_false_agents |-> if_false_agents]
    /\ binding = "snapshot"
    /\ act = [a \in Activations |-> IdleActivation]
    /\ started = 0
    /\ call = [t \in Tasks |-> NoCall]
    /\ ucp = NoUcp

\* An agent holding the tool (greeter, researcher, screenwriter, critic)
\* calls append_to_state(field, response) with a field and a text of its
\* choosing.
ToolCall_append_to_state ==
    /\ pc = "tool"
    /\ \E field \in AppendKeys, response \in Responses :
          /\ Len(log[field]) < MaxAppends
          /\ state' = append_to_state(state, field, response)
          /\ log' = [log EXCEPT ![field] = Append(@, response)]
    /\ UNCHANGED <<pc, runs, loopVars, condVars, historyVars, error, order, observed, wrote, genericVars>>

NextAppend == ToolCall_append_to_state

AppendSpec == InitAppend /\ [][NextAppend]_vars

\* ------------------------------- append_to_state called by concurrent steps

\* The fields the calls of CallSpec name: a list key and an output_key.
CallKeys == {"CRITICAL_FEEDBACK", "casting_report"}

\* The store the concurrent steps share: empty, or holding the text that
\* casting_agent saved under its output_key earlier in the session.
CallStates ==
    {EmptyState,
     [EmptyState EXCEPT !["casting_report"] = Text(<<"casting_agent", 1>>)]}

InitCall ==
    /\ state \in CallStates
    /\ pc = "call"
    /\ runs = 0
    /\ loopState = "ITERATING"
    /\ times_looped = 0
    /\ cur = 1
    /\ escalate = FALSE
    /\ sub_agents = <<>>
    /\ plan = <<>>
    /\ idx = 1
    /\ par = [c \in preproduction_team_sub_agents |-> "idle"]
    /\ pitch_file = FALSE
    /\ ran = <<>>
    /\ selections = <<>>
    /\ evals = 0
    /\ approvedAt = 0
    /\ criticIdle = FALSE
    /\ log = [k \in Keys |-> <<>>]
    /\ error = NoError
    /\ order = <<>>
    /\ observed = <<>>
    /\ wrote = [c \in preproduction_team_sub_agents |-> {}]
    /\ branches = [if_true_agents |-> if_true_agents,
                   if_false_agents |-> if_false_agents]
    /\ binding = "snapshot"
    /\ act = [a \in Activations |-> IdleActivation]
    /\ started = 0
    /\ call = [t \in Tasks |-> NoCall]
    /\ ucp = NoUcp

callFrame ==
    <<pc, runs, loopVars, condVars, historyVars, error, order, observed,
      wrote, branches, binding, act, started, ucp>>

\* Step t calls append_to_state(field, response).
CallBegins(t) ==
    /\ pc = "call"
    /\ call[t].status \in {"idle", "returned", "raised"}
    /\ call[t].calls < MaxCalls
    /\ \E field \in CallKeys, response \in Responses :
          call' = [call EXCEPT ![t] =
                      [status |-> "called", field |-> field,
                       response |-> response, existing_state |-> Absent,
                       calls |-> call[t].calls + 1]]
    /\ UNCHANGED <<state, log, callFrame>>

\* existing_state = tool_context.state.get(field, [])
CallReads(t) ==
    /\ pc = "call"
    /\ call[t].status = "called"
    /\ call' = [call EXCEPT ![t].status = "read",
                            ![t].existing_state =
                                append_to_state_read(state, call[t].field)]
    /\ UNCHANGED <<state, log, callFrame>>

\* tool_context.state[field] = existing_state + [response], then the return;
\* the + raises when existing_state is not a list, and nothing is stored.
CallWrites(t) ==
    /\ pc = "call"
    /\ call[t].status = "read"
    /\ IF append_to_state_raises(call[t].existing_state)
       THEN /\ call' = [call EXCEPT ![t].status = "raised"]
            /\ UNCHANGED <<state, log>>
       ELSE /\ state' = append_to_state_write(state, call[t].field,
                            call[t].existing_state, call[t].response)
            /\ log' = [log EXCEPT ![call[t].field] = Append(@, call[t].response)]
            /\ call' = [call EXCEPT ![t].status = "returned"]
    /\ UNCHANGED callFrame

NextCall ==
    \/ \E t \in Tasks : CallBegins(t)
    \/ \E t \in Tasks : CallReads(t)
    \/ \E t \in Tasks : CallWrites(t)

CallSpec == InitCall /\ [][NextCall]_vars

\* ------------------------------------------------ the UCP tools and registry

MerchantIds == {"shopify", "custom", "ramdev", "ramdevitworld", "amazon"}

Limits == (0 - 1) .. MaxLimit

\* What one merchant answers to a search: a failure or a list of products.
Responses_of(key) ==
    {[ok |-> FALSE, products |-> <<>>]}
    \cup {[ok |-> TRUE, products |-> [i \in 1 .. n |-> <<key, i>>]] :
              n \in 0 .. MaxProducts}

InitUcp ==
    /\ state = EmptyState
    /\ pc = "ucp"
    /\ runs = 0
    /\ loopState = "ITERATING"
    /\ times_looped = 0
    /\ cur = 1
    /\ escalate = FALSE
    /\ sub_agents = <<>>
    /\ plan = <<>>
    /\ idx = 1
    /\ par = [c \in preproduction_team_sub_agents |-> "idle"]
    /\ pitch_file = FALSE
    /\ ran = <<>>
    /\ selections = <<>>
    /\ evals = 0
    /\ approvedAt = 0
    /\ criticIdle = FALSE
    /\ log = [k \in Keys |-> <<>>]
    /\ error = NoError
    /\ order = <<>>
    /\ observed = <<>>
    /\ wrote = [c \in preproduction_team_sub_agents |-> {}]
    /\ branches = [if_true_agents |-> if_true_agents,
                   if_false_agents |-> if_false_agents]
    /\ binding = "snapshot"
    /\ act = [a \in Activations |-> IdleActivation]
    /\ started = 0
    /\ call = [t \in Tasks |-> NoCall]
    /\ \E env_set \in BOOLEAN :
          ucp = [merchants |-> load_merchants(env_set), last |-> NoUcpCall]

ucpFrame ==
    <<state, pc, runs, loopVars, condVars, historyVars, log, error, order,
      observed, wrote, branches, binding, act, started, call>>

\* A UCP tool function is called with a merchant_id.
UcpToolCall ==
    /\ pc = "ucp"
    /\ \E tool \in UcpTools, merchant_id \in MerchantIds, outcome \in ClientOutcomes :
          LET result == ucp_tool(tool, ucp.merchants, merchant_id, outcome)
          IN  ucp' = [ucp EXCEPT !.last =
                        [NoUcpCall EXCEPT !.kind = "tool",
                                          !.tool = tool,
                                          !.merchant_id = merchant_id,
                                          !.status = result.status,
                                          !.client_calls = result.client_calls]]
    /\ UNCHANGED ucpFrame

\* search_ucp_products without a merchant_id: search_all_merchants(query, limit)
UcpSearchAll ==
    /\ pc = "ucp"
    /\ \E limit \in Limits,
          r1 \in Responses_of("shopify"),
          r2 \in Responses_of("custom"),
          r3 \in Responses_of("ramdev") :
          LET responses == [k \in {"shopify", "custom", "ramdev"} |->
                               CASE k = "shopify" -> r1
                                 [] k = "custom" -> r2
                                 [] OTHER -> r3]
          IN  ucp' = [ucp EXCEPT !.last =
                        [NoUcpCall EXCEPT !.kind = "search_all",
                                          !.tool = "search_ucp_products",
                                          !.status = "success",
                                          !.limit = limit,
                                          !.responses = responses,
                                          !.queried = ucp.merchants,
                                          !.products = search_all_merchants(
                                              ucp.merchants, responses, limit)]]
    /\ UNCHANGED ucpFrame

\* search_products or get_product_details called on a registered client.
UcpClientCall ==
    /\ pc = "ucp"
    /\ \E i \in 1 .. Len(ucp.merchants),
          method \in {"search_products", "get_product_details"} :
          ucp' = [ucp EXCEPT !.last =
                    [NoUcpCall EXCEPT !.kind = "client",
                                      !.tool = method,
                                      !.merchant_id = ucp.merchants[i],
                                      !.path =
                                          IF method = "search_products"
                                          THEN search_products_path(
                                                   merchant_id_of(ucp.merchants[i]))
                                          ELSE get_product_details_path(
                                                   merchant_id_of(ucp.merchants[i]))]]
    /\ UNCHANGED ucpFrame

NextUcp == UcpToolCall \/ UcpSearchAll \/ UcpClientCall

UcpSpec == InitUcp /\ [][NextUcp]_vars

\* ------------------------------------------------------------- properties

LastSelection == selections[Len(selections)]

IsPrefix(s, t) == Len(s) <= Len(t) /\ \A i \in 1 .. Len(s) : s[i] = t[i]

FeedbackEmpty(v) == v = Absent \/ v = List(<<>>)

AllChildren(status) == \A c \in preproduction_team_sub_agents : par[c] = status

\* C1: an activation of ConditionalAgent.plan runs exactly the agents of
\* if_true_agents when the condition returned true and exactly those of
\* if_false_agents when it returned false: what has run so far is a prefix of
\* the selected list, the whole list once the activation is over, never an
\* agent of each branch, and a branch is always selected.
C1_ExactlyOneBranch ==
    (pc \in {"branch", "end"}) =>
        LET branch == IF LastSelection.good THEN if_true_agents ELSE if_false_agents
        IN  /\ plan = branch
            /\ IsPrefix(ran, branch)
            /\ (pc = "end" => ran = branch)
            /\ ~(Range(ran) \cap Range(if_true_agents) # {}
                 /\ Range(ran) \cap Range(if_false_agents) # {})

C1_Witness ==
    /\ pc = "end"
    /\ LastSelection.good
    /\ ran = if_true_agents
    /\ pitch_file

\* C2: every activation of the same ConditionalAgent evaluates the condition
\* once against the state at that activation: the list it selects is the
\* true branch when CRITICAL_FEEDBACK is absent or empty at that moment and
\* the false branch when it is non-empty, whatever earlier activations chose.
C2_ReEvaluatedEachActivation ==
    /\ evals = Len(selections)
    /\ \A i \in 1 .. Len(selections) :
          selections[i].chosen =
              IF FeedbackEmpty(selections[i].feedback)
              THEN if_true_agents ELSE if_false_agents

C2_Witness ==
    /\ Len(selections) = 2
    /\ FeedbackEmpty(selections[1].feedback)
    /\ selections[1].chosen = if_true_agents
    /\ ~FeedbackEmpty(selections[2].feedback)
    /\ selections[2].chosen = if_false_agents

\* C3: when the critic calls exit_loop for the first time in iteration k
\* (1 <= k <= 5), writers_room ends EXITED with exactly k iterations done:
\* it is never EXHAUSTED, while still ITERATING it is at the end of
\* iteration k, and EXITED is reached only this way.
C3_ExitAfterKIterations ==
    /\ approvedAt # 0 =>
          /\ approvedAt \in 1 .. 5
          /\ loopState # "EXHAUSTED"
          /\ loopState = "ITERATING" =>
                (times_looped = approvedAt - 1
                 /\ cur > Len(writers_room_sub_agents))
          /\ loopState = "EXITED" => times_looped = approvedAt
    /\ loopState = "EXITED" => approvedAt # 0

C3_Witness ==
    /\ loopState = "EXITED"
    /\ approvedAt = 3
    /\ times_looped = 3

\* C4: when no step raises the termination signal, writers_room ends
\* EXHAUSTED after exactly 5 iterations, and only then; EXHAUSTED is a normal
\* completion: film_concept_team can then activate pitch_approval_workflow,
\* which can plan on the state as it is.
C4_ExhaustedAfterMaxIterations ==
    /\ loopState = "EXHAUSTED" => (times_looped = 5 /\ approvedAt = 0)
    /\ (approvedAt = 0 /\ loopState = "ITERATING") => times_looped < 5
    /\ (loopState = "EXHAUSTED" /\ pc = "loop") => ENABLED SequentialAgent_next
    /\ (loopState = "EXHAUSTED" /\ pc = "cond") => ENABLED pitch_approval_workflow_plan

C4_Witness ==
    /\ loopState = "EXHAUSTED"
    /\ times_looped = 5
    /\ pc = "branch"

C6_LoopTerminates ==
    [](pc = "loop" => <>(loopState \in {"EXITED", "EXHAUSTED"}))

C6_Witness ==
    /\ loopState = "EXHAUSTED"
    /\ criticIdle
    /\ ~FeedbackEmpty(state["CRITICAL_FEEDBACK"])

\* C7: starting from absent keys, after any sequence of append_to_state calls
\* the list under each key is exactly the responses appended to it, in call
\* order; a key nothing was appended to is still absent.
C7_AppendAccumulatesInOrder ==
    \A k \in Keys :
        IF log[k] = <<>> THEN state[k] = Absent ELSE state[k] = List(log[k])

C7_Witness ==
    /\ log["PROMPT"] = <<2, 1, 1>>
    /\ state["PROMPT"] = List(<<2, 1, 1>>)
    /\ state["CRITICAL_FEEDBACK"] = List(<<1>>)

\* C8: pitch_approval_workflow activated with CRITICAL_FEEDBACK absent or
\* empty runs preproduction_team, then file_writer, and never producer;
\* activated with a non-empty list it runs producer only.
C8_PitchBranches ==
    (pc \in {"branch", "end"}) =>
        IF FeedbackEmpty(LastSelection.feedback)
        THEN /\ IsPrefix(ran, <<"preproduction_team", "file_writer">>)
             /\ pc = "end" =>
                   (ran = <<"preproduction_team", "file_writer">>
                    /\ AllChildren("done"))
        ELSE /\ IsPrefix(ran, <<"producer">>)
             /\ AllChildren("idle")
             /\ pc = "end" => ran = <<"producer">>

C8_Witness ==
    /\ pc = "end"
    /\ LastSelection.feedback = List(<<>>)
    /\ ran = <<"preproduction_team", "file_writer">>

\* C9: in a run where the critic in each iteration either called exit_loop or
\* appended feedback, the conditional selects the pre-production branch if and
\* only if the loop ended because the critic approved (EXITED).
C9_TrueBranchIffApproved ==
    \A i \in 1 .. Len(selections) :
        ~selections[i].idle =>
            (selections[i].chosen = if_true_agents <=> selections[i].approved)

\* C10: when every child of preproduction_team is done, in whatever order the
\* children finished, the state of the run holds all
\* three output keys, each with the text its own child wrote in this run.
C10_ParallelWritesAllKeys ==
    (pc \in {"branch", "end"} /\ AllChildren("done")) =>
        /\ state["box_office_report"] = Text(<<"box_office_researcher", runs>>)
        /\ state["casting_report"] = Text(<<"casting_agent", runs>>)
        /\ state["indian_budget_estimate"] = Text(<<"indian_line_producer", runs>>)

C10_Witness ==
    /\ AllChildren("done")
    /\ pc = "end"
    /\ runs = 2

\* C11: when children of preproduction_team fail, every child still
\* finishes, the children that did not fail have their writes in the state,
\* and the run ends with one error naming exactly the failed children.
C11_ParallelAggregatesFailures ==
    LET failed == {c \in preproduction_team_sub_agents : par[c] = "failed"}
    IN  /\ (pc = "end") => failed = {}
        /\ (pc = "failed" /\ (failed # {} \/ error.children # {})) =>
              /\ error.children = failed
              /\ error.path[3] = "preproduction_team"
              /\ \A c \in preproduction_team_sub_agents :
                    /\ par[c] \in {"done", "failed"}
                    /\ par[c] = "done" =>
                          state[output_key(c)] = Text(<<c, runs>>)

C11_Witness ==
    /\ pc = "failed"
    /\ error.children = {"box_office_researcher", "indian_line_producer"}
    /\ par["casting_agent"] = "done"
    /\ state["casting_report"] = Text(<<"casting_agent", runs>>)

\* C12: preproduction_team returns only when all its children have finished:
\* file_writer has started only if the three children are done, and the
\* reports it read are the ones they wrote in this run.
C12_JoinBarrier ==
    /\ (pc = "branch" /\ idx > 1 /\ plan[1] = "preproduction_team") =>
          AllChildren("done")
    /\ (pc \in {"branch", "end", "failed"} /\ "file_writer" \in Range(ran)) =>
          /\ AllChildren("done")
          /\ observed = <<Text(<<"box_office_researcher", runs>>),
                          Text(<<"casting_agent", runs>>),
                          Text(<<"indian_line_producer", runs>>)>>

C12_Witness ==
    /\ pc = "end"
    /\ runs = 2
    /\ "file_writer" \in Range(ran)
    /\ observed[2] = Text(<<"casting_agent", 2>>)

\* C13: a sequence stops at its first failing child and propagates the
\* failure: a recorded failure ends the run; after a failure in writers_room
\* pitch_approval_workflow was not activated and none of its children ran or
\* wrote; after a failure of preproduction_team file_writer did not run.
C13_SequentialFailFast ==
    /\ error # NoError => pc = "failed"
    /\ pc = "failed" =>
          /\ error # NoError
          /\ error.path[2] = "writers_room" =>
                /\ plan = <<>>
                /\ ran = <<>>
                /\ observed = <<>>
                /\ AllChildren("idle")
                /\ \A c \in preproduction_team_sub_agents : wrote[c] = {}
          /\ error.path[3] = "preproduction_team" =>
                /\ "file_writer" \notin Range(ran)
                /\ observed = <<>>

C13_Witness ==
    /\ pc = "failed"
    /\ error.path = <<"film_concept_team", "writers_room", "screenwriter">>
    /\ Len(order) = 4
    /\ plan = <<>>

\* C14: in every iteration of writers_room the children run in the order
\* researcher, screenwriter, critic, one after the other, and each child
\* finds in the state what the child before it has written (also across
\* iterations).
C14_StrictOrderSharedState ==
    /\ \A i \in 1 .. Len(order) :
          order[i][1] = <<"researcher", "screenwriter", "critic">>[((i - 1) % 3) + 1]
    /\ (pc = "loop" /\ loopState = "ITERATING") =>
          Len(order) = 3 * times_looped + (cur - 1)
    /\ \A i \in 1 .. Len(order) - 1 :
          LET a == order[i][2]
              b == order[i + 1][2]
          IN  CASE order[i][1] = "researcher" -> b = <<a[1] + 1, a[2], a[3]>>
                [] order[i][1] = "screenwriter" -> b = <<a[1], a[2] + 1, a[3]>>
                [] OTHER -> /\ b[1] = a[1]
                            /\ b[2] = a[2]
                            /\ b[3] \in {a[3], a[3] + 1}

C14_Witness ==
    /\ Len(order) = 6
    /\ order[5] = <<"screenwriter", <<2, 1, 1>>>>
    /\ order[6] = <<"critic", <<2, 2, 1>>>>

\* C18: the children of preproduction_team write pairwise disjoint sets of
\* keys, and no two children running at the same time write the same key.
C18_DisjointKeys ==
    \A c, d \in preproduction_team_sub_agents :
        c # d =>
            /\ wrote[c] \cap wrote[d] = {}
            /\ (par[c] = "running" /\ par[d] = "running") =>
                  output_key(c) # output_key(d)

C18_Witness ==
    /\ pc = "branch"
    /\ par["casting_agent"] = "running"
    /\ par["indian_line_producer"] = "running"
    /\ wrote["box_office_researcher"] = {"box_office_report"}

\* C19: pitch_is_good returns a boolean for every shape of the state: true
\* when CRITICAL_FEEDBACK is absent or an empty list, false when it is a
\* non-empty list; so did every evaluation made by the conditional.
C19_PitchIsGoodTotal ==
    /\ pitch_is_good(state) \in BOOLEAN
    /\ pitch_is_good(state) <=> FeedbackEmpty(state["CRITICAL_FEEDBACK"])
    /\ \A i \in 1 .. Len(selections) :
          selections[i].good <=> FeedbackEmpty(selections[i].feedback)

C19_Witness ==
    /\ Len(selections) = 2
    /\ selections[1].feedback = List(<<>>)
    /\ selections[1].good
    /\ selections[2].feedback = Absent
    /\ selections[2].good

\* C20: evaluating the condition leaves the state store as it was; an absent
\* CRITICAL_FEEDBACK key is still absent afterwards.
C20_ConditionHasNoSideEffect ==
    [][(pc = "cond" /\ pc' = "branch") => state' = state]_vars

C20_Witness ==
    /\ pc = "branch"
    /\ LastSelection.feedback = Absent
    /\ state["CRITICAL_FEEDBACK"] = Absent

OwnBranch(a) ==
    IF act[a].result = "true"
    THEN <<"preproduction_team", "file_writer">>
    ELSE <<"producer">>

\* C15: an activation whose condition raised is aborted with that failure and
\* runs no agent of either branch, whatever self.sub_agents still holds from
\* an earlier activation.
C15_RaisingConditionAborts ==
    \A a \in Activations :
        act[a].result = "raise" =>
            /\ act[a].status = "failed"
            /\ act[a].plan = <<>>
            /\ act[a].ran = <<>>

C15_Witness ==
    /\ act[1].status = "done"
    /\ act[1].ran = <<"preproduction_team", "file_writer">>
    /\ sub_agents = <<"preproduction_team", "file_writer">>
    /\ act[2].result = "raise"
    /\ act[2].status = "failed"

\* C16: whatever activations have happened, with whatever condition results,
\* the two configured branch lists hold the agents given at construction, in
\* the same order.
C16_BranchListsUnchanged ==
    /\ branches.if_true_agents = <<"preproduction_team", "file_writer">>
    /\ branches.if_false_agents = <<"producer">>

C16_Witness ==
    /\ started = 3
    /\ sub_agents = <<"producer">>
    /\ act[1].status = "done"
    /\ act[1].result = "true"
    /\ act[2].result = "false"

\* C17: each activation runs the branch its own condition result selected,
\* also when activations of the same object overlap: what it has run is a
\* prefix of that branch, and the whole branch once it is done.
C17_OwnBranchUnderOverlap ==
    \A a \in Activations :
        act[a].status \in {"running", "done"} =>
            /\ IsPrefix(act[a].ran, OwnBranch(a))
            /\ act[a].status = "done" => act[a].ran = OwnBranch(a)

\* C21: a failure of a child of writers_room is not swallowed: the run has
\* failed, the failing child is the one the loop was at, no later child of the
\* iteration and no further iteration has run, no step of the loop or of
\* film_concept_team can be taken, and pitch_approval_workflow has not been
\* activated in that run.
C21_LoopFailureNotSwallowed ==
    (error # NoError /\ Len(error.path) = 3 /\ error.path[2] = "writers_room") =>
        /\ pc = "failed"
        /\ error.path[1] = "film_concept_team"
        /\ loopState = "ITERATING"
        /\ cur <= Len(writers_room_sub_agents)
        /\ error.path[3] = writers_room_sub_agents[cur]
        /\ Len(order) = Len(writers_room_sub_agents) * times_looped + (cur - 1)
        /\ ~ENABLED LoopStep
        /\ ~ENABLED SequentialAgent_next
        /\ ~ENABLED pitch_approval_workflow_plan
        /\ Len(selections) = runs - 1
        /\ plan = <<>>

C21_Witness ==
    /\ pc = "failed"
    /\ runs = 2
    /\ error.path = <<"film_concept_team", "writers_room", "researcher">>
    /\ times_looped = 2
    /\ Len(selections) = 1

\* C22: once writers_room has ended EXITED the termination signal is no longer
\* set, the only step film_concept_team takes next is the activation of
\* pitch_approval_workflow, and that activation does happen.
C22_SignalConsumedByLoop ==
    /\ [](loopState = "EXITED" => ~escalate)
    /\ []((pc = "loop" /\ loopState = "EXITED") => ENABLED SequentialAgent_next)
    /\ [][(pc = "loop" /\ loopState = "EXITED") => pc' = "cond"]_vars
    /\ [][(pc = "cond" /\ loopState = "EXITED") =>
              (pc' = "branch" /\ Len(selections') = Len(selections) + 1)]_vars
    /\ ((pc = "loop" /\ loopState = "EXITED") ~> (pc = "branch" /\ plan # <<>>))

C22_Witness ==
    /\ pc = "branch"
    /\ loopState = "EXITED"
    /\ approvedAt = 3
    /\ times_looped = 3
    /\ ~escalate
    /\ Len(selections) = runs

\* C23: a failed run surfaces one error, the first one: it is never replaced,
\* and its path leads from film_concept_team through the composite to the
\* step that failed, which is the step the run was at.
C23_FirstErrorWithPath ==
    /\ [](pc = "failed" =>
            /\ Len(error.path) = 3
            /\ error.path[1] = "film_concept_team"
            /\ \/ /\ error.path[2] = "writers_room"
                  /\ cur <= Len(writers_room_sub_agents)
                  /\ error.path[3] = writers_room_sub_agents[cur]
               \/ /\ error.path[2] = "pitch_approval_workflow"
                  /\ idx <= Len(plan)
                  /\ error.path[3] = plan[idx])
    /\ [](pc # "failed" => error = NoError)
    /\ [][error # NoError => error' = error]_vars

C23_Witness ==
    /\ pc = "failed"
    /\ error.path = <<"film_concept_team", "pitch_approval_workflow", "file_writer">>
    /\ AllChildren("done")

\* C24: the loop starts ITERATING with counter 0; the number of iterations
\* started is always between 0 and 5; EXITED and EXHAUSTED are terminal for
\* the run: no child of the loop runs again and the loop state stays.
C24_LoopStateMachine ==
    /\ [](/\ loopState \in {"ITERATING", "EXITED", "EXHAUSTED"}
          /\ times_looped \in 0 .. 5
          /\ (times_looped + (IF loopState = "ITERATING" /\ cur > 1 THEN 1 ELSE 0))
                \in 0 .. 5
          /\ loopState = "EXHAUSTED" => times_looped = 5)
    /\ [][(pc # "loop" /\ pc' = "loop") =>
              (loopState' = "ITERATING" /\ times_looped' = 0 /\ cur' = 1
               /\ order' = <<>>)]_vars
    /\ [][(loopState \in {"EXITED", "EXHAUSTED"} /\ runs' = runs) =>
              (/\ loopState' = loopState
               /\ times_looped' = times_looped
               /\ cur' = cur
               /\ order' = order)]_vars

C24_Witness ==
    /\ pc = "end"
    /\ runs = 2
    /\ loopState = "EXHAUSTED"
    /\ times_looped = 5
    /\ Len(order) = 15

\* C25: every append_to_state call returns {"status": "success"}, and the
\* step that completes it leaves every key other than field as it was and
\* leaves field with a value.
C25_AppendFrameAndReturn ==
    [][\A t \in Tasks :
          (call[t].status = "read" /\ call'[t].status # "read") =>
              /\ call'[t].status = "returned"
              /\ \A k \in Keys \ {call[t].field} : state'[k] = state[k]
              /\ state'[call[t].field] # Absent]_vars

\* C26: no append is lost: under every key the list holds one entry for each
\* append_to_state call on that key that has returned.
C26_NoLostAppend ==
    \A k \in Keys :
        log[k] # <<>> =>
            /\ state[k].kind = "list"
            /\ Len(state[k].items) = Len(log[k])
            /\ \A r \in Responses :
                  Cardinality({i \in 1 .. Len(state[k].items) : state[k].items[i] = r})
                  = Cardinality({i \in 1 .. Len(log[k]) : log[k][i] = r})

\* Whether the registry has a client for merchant_id.
Resolves(merchant_id) ==
    \/ merchant_id \in Range(ucp.merchants)
    \/ merchant_id = "ramdevitworld" /\ "ramdev" \in Range(ucp.merchants)

\* C27: a UCP tool function called with a merchant_id the registry does not
\* resolve returns status error and has made no call on any merchant client;
\* every tool call ends with status success or error.
C27_UnknownMerchantIsError ==
    ucp.last.kind \in {"tool", "search_all"} =>
        /\ ucp.last.status \in {"success", "error"}
        /\ (ucp.last.kind = "tool" /\ ~Resolves(ucp.last.merchant_id)) =>
              /\ ucp.last.status = "error"
              /\ ucp.last.client_calls = <<>>

C27_Witness ==
    /\ ucp.last.kind = "tool"
    /\ ucp.last.tool = "create_ucp_checkout"
    /\ ucp.last.merchant_id = "ramdevitworld"
    /\ ucp.merchants = <<"shopify", "custom">>
    /\ ucp.last.status = "error"
    /\ ucp.last.client_calls = <<>>

\* The products a search of all merchants has to draw from: those of the
\* registered merchants whose search did not fail, in registration order.
Answered(key) ==
    IF key \in Range(ucp.merchants) /\ ucp.last.responses[key].ok
    THEN ucp.last.responses[key].products
    ELSE <<>>

Concatenation == Answered("shopify") \o Answered("custom") \o Answered("ramdev")

SearchAllReturnsFirstLimit ==
    /\ ucp.last.queried = ucp.merchants
    /\ Len(ucp.last.products) <= ucp.last.limit
    /\ IsPrefix(ucp.last.products, Concatenation)
    /\ Len(Concatenation) <= ucp.last.limit =>
          ucp.last.products = Concatenation
    /\ Len(Concatenation) > ucp.last.limit =>
          Len(ucp.last.products) = ucp.last.limit

\* C28 as stated: search_all_merchants queries every registered merchant once
\* in registration order and returns the first limit products of the
\* concatenation of their results, never more than limit, whatever limit is;
\* a failed merchant contributes nothing and the others' products are kept.
C28_SearchAllAnyLimit ==
    ucp.last.kind = "search_all" => SearchAllReturnsFirstLimit

\* C28 for a limit that is not negative: search_all_merchants queries every
\* registered merchant once in registration order and returns the first
\* limit products of the concatenation of their results, never more than
\* limit; a failed merchant contributes nothing and the others' products are
\* kept.
C28_SearchAllFirstLimit ==
    (ucp.last.kind = "search_all" /\ ucp.last.limit >= 0) =>
        SearchAllReturnsFirstLimit

C28_Witness ==
    /\ ucp.last.kind = "search_all"
    /\ ucp.last.limit = 3
    /\ ucp.merchants = <<"shopify", "custom", "ramdev">>
    /\ ~ucp.last.responses["shopify"].ok
    /\ Len(ucp.last.responses["ramdev"].products) = 2
    /\ ucp.last.products = <<<<"custom", 1>>, <<"custom", 2>>, <<"ramdev", 1>>>>

\* C29: for the client registered under ramdev, search_products sends the
\* WordPress GET /product/search request and get_product_details the
\* WooCommerce Store API request; for every other registered client both send
\* the standard /catalog requests.
C29_RamdevHandlingConsistent ==
    ucp.last.kind = "client" =>
        ucp.last.path =
            CASE ucp.last.merchant_id = "ramdev" /\ ucp.last.tool = "search_products" ->
                   "GET /product/search"
              [] ucp.last.merchant_id = "ramdev" /\ ucp.last.tool = "get_product_details" ->
                   "GET /wc/store/products/{product_id}"
              [] ucp.last.merchant_id # "ramdev" /\ ucp.last.tool = "search_products" ->
                   "POST /catalog/search"
              [] OTHER -> "GET /catalog/products/{product_id}"

====
